---- MODULE Spec2Model ----
(***************************************************************************)
(* Model of janus-go: the session identifier resolver, the identity token  *)
(* provider, the federation exchange client and the input validators.      *)
(*                                                                         *)
(* Strings are TLA+ strings (Len, \o and SubSeq act on them as on Go       *)
(* strings of ASCII bytes).  A Go error is the chain of its messages,      *)
(* outermost first: fmt.Errorf("m: %w", e) is <<"m">> \o e, nil is << >>.  *)
(***************************************************************************)
EXTENDS Integers, Sequences, FiniteSets, TLC

VARIABLES
    pc,            \* position of the running program
    ctxErr,        \* per context: "live", "context canceled", "context deadline exceeded"
    clientCtx,     \* the context NewMetadataClient was given
    Logger,        \* logger.Logger: "nil" or the level it was initialised with
    globalConfig,  \* types.globalConfig
    main,          \* main's frame: its flags and the values it passes on
    gsi,           \* GetSessionIdentifier's frame and result
    ts,            \* TokenSource's frame and result
    gc,            \* GetCredentials' frame and result
    out,           \* what was written to standard output (log events, credentials)
    val            \* the validators' input and result

vars == <<pc, ctxErr, clientCtx, Logger, globalConfig, main, gsi, ts, gc, out, val>>

(***************************************************************************)
(* Strings                                                                 *)
(***************************************************************************)
HasPrefix(s, p) == Len(s) >= Len(p) /\ SubSeq(s, 1, Len(p)) = p

Drop(s, n) == SubSeq(s, n + 1, Len(s))

CharAt(s, i) == SubSeq(s, i, i)

AllIn(s, chars) == \A i \in 1..Len(s) : CharAt(s, i) \in chars

RECURSIVE Rep(_, _)
Rep(c, n) == IF n <= 0 THEN "" ELSE c \o Rep(c, n - 1)

Digits == {"0", "1", "2", "3", "4", "5", "6", "7", "8", "9"}

UpperLetters == "ABCDEFGHIJKLMNOPQRSTUVWXYZ"

LowerLetters == "abcdefghijklmnopqrstuvwxyz"

LetterSet(letters) == {CharAt(letters, i) : i \in 1..Len(letters)}

\* unicode.ToLower on one ASCII character
LowerChar(c) ==
    IF \E i \in 1..Len(UpperLetters) : CharAt(UpperLetters, i) = c
    THEN CharAt(LowerLetters, CHOOSE i \in 1..Len(UpperLetters) : CharAt(UpperLetters, i) = c)
    ELSE c

\* strings.ToLower
RECURSIVE ToLower(_)
ToLower(s) == IF s = "" THEN "" ELSE LowerChar(CharAt(s, 1)) \o ToLower(Drop(s, 1))

\* the ASCII characters unicode.IsSpace accepts
SpaceChars == {" ", "\t", "\n", "\r", "\f"}

RECURSIVE TrimLeft(_)
TrimLeft(s) ==
    IF s # "" /\ CharAt(s, 1) \in SpaceChars THEN TrimLeft(Drop(s, 1)) ELSE s

RECURSIVE TrimRight(_)
TrimRight(s) ==
    IF s # "" /\ CharAt(s, Len(s)) \in SpaceChars
    THEN TrimRight(SubSeq(s, 1, Len(s) - 1)) ELSE s

\* strings.TrimSpace
TrimSpace(s) == TrimRight(TrimLeft(s))

(***************************************************************************)
(* Errors                                                                  *)
(***************************************************************************)
NoErr == << >>

Wrap(msg, err) == <<msg>> \o err

(***************************************************************************)
(* types: the validators                                                   *)
(***************************************************************************)
Partitions == {"aws", "aws-cn", "aws-us-gov"}

AccountDigits == 12

\* the character class [a-zA-Z0-9+=,.@\-_/] of arnPattern
RoleChars ==
    LetterSet(UpperLetters) \cup LetterSet(LowerLetters) \cup Digits
        \cup {"+", "=", ",", ".", "@", "-", "_", "/"}

\* arnPattern without its closing $: a valid ARN followed by anything
arnPatternMatch_unanchored(s) ==
    /\ HasPrefix(s, "arn:")
    /\ \E part \in Partitions :
         /\ HasPrefix(Drop(s, Len("arn:")), part \o ":iam::")
         /\ LET t == Drop(s, Len("arn:") + Len(part) + Len(":iam::")) IN
              /\ Len(t) >= AccountDigits
              /\ AllIn(SubSeq(t, 1, AccountDigits), Digits)
              /\ HasPrefix(Drop(t, AccountDigits), ":role/")
              /\ LET name == Drop(t, AccountDigits + Len(":role/")) IN
                   Len(name) >= 1 /\ CharAt(name, 1) \in RoleChars

\* ^arn:(aws|aws-cn|aws-us-gov):iam::\d{12}:role\/[a-zA-Z0-9+=,.@\-_/]+$
\* matched left to right; Go's $ (no m flag) is the end of the text
arnPatternMatch(s) ==
    /\ HasPrefix(s, "arn:")
    /\ \E part \in Partitions :
         /\ HasPrefix(Drop(s, Len("arn:")), part \o ":iam::")
         /\ LET t == Drop(s, Len("arn:") + Len(part) + Len(":iam::")) IN
              /\ Len(t) >= AccountDigits
              /\ AllIn(SubSeq(t, 1, AccountDigits), Digits)
              /\ HasPrefix(Drop(t, AccountDigits), ":role/")
              /\ LET name == Drop(t, AccountDigits + Len(":role/")) IN
                   Len(name) >= 1 /\ AllIn(name, RoleChars)

ValidateRoleArn(arn) ==
    IF arn = "" THEN <<"role ARN cannot be empty">>
    ELSE IF ~arnPatternMatch(arn) THEN <<"invalid AWS role ARN format">>
    ELSE NoErr

validAWSRegions ==
    {"us-east-1", "us-east-2", "us-west-1", "us-west-2",
     "af-south-1",
     "ap-east-1", "ap-south-1", "ap-south-2", "ap-northeast-1", "ap-northeast-2",
     "ap-northeast-3", "ap-southeast-1", "ap-southeast-2", "ap-southeast-3",
     "ap-southeast-4",
     "ca-central-1", "ca-west-1",
     "eu-central-1", "eu-central-2", "eu-west-1", "eu-west-2", "eu-west-3",
     "eu-north-1", "eu-south-1", "eu-south-2",
     "me-south-1", "me-central-1",
     "sa-east-1",
     "us-gov-east-1", "us-gov-west-1",
     "cn-north-1", "cn-northwest-1",
     "il-central-1"}

\* ValidateSTSRegion comparing the region as given, neither trimmed nor lower-cased
ValidateSTSRegion_asGiven(region) ==
    IF region = "" THEN <<"STS region cannot be empty">>
    ELSE IF region \notin validAWSRegions THEN <<"invalid AWS region">>
    ELSE NoErr

\* ValidateSTSRegion refusing only the empty string
ValidateSTSRegion_nonEmpty(region) ==
    IF region = "" THEN <<"STS region cannot be empty">> ELSE NoErr

ValidateSTSRegion(region) ==
    IF region = "" THEN <<"STS region cannot be empty">>
    ELSE IF ToLower(TrimSpace(region)) \notin validAWSRegions
         THEN <<"invalid AWS region">>
    ELSE NoErr

(***************************************************************************)
(* The validators' inputs                                                  *)
(***************************************************************************)
\* how far the generated lengths go to either side of a length the code tests
MaxSlack == 1

UpperChar(c) ==
    IF \E i \in 1..Len(LowerLetters) : CharAt(LowerLetters, i) = c
    THEN CharAt(UpperLetters, CHOOSE i \in 1..Len(LowerLetters) : CharAt(LowerLetters, i) = c)
    ELSE c

RECURSIVE ToUpper(_)
ToUpper(s) == IF s = "" THEN "" ELSE UpperChar(CharAt(s, 1)) \o ToUpper(Drop(s, 1))

\* the first n digits of 1234567890 1234567890 ...
RECURSIVE DigitString(_)
DigitString(n) ==
    IF n <= 0 THEN "" ELSE DigitString(n - 1) \o CharAt("1234567890", ((n - 1) % 10) + 1)

ArnAccounts ==
    {DigitString(n) : n \in (AccountDigits - MaxSlack)..(AccountDigits + MaxSlack)}
        \cup {"12345", "12345678901a", ""}

ArnNames ==
    {"", "MyRole", "service/MyRole", "My-Role_Name.123", "My Role", "My:Role", "a", "/"}

ArnInputs ==
    {pre \o part \o ":" \o svc \o "::" \o acct \o ":" \o res \o name \o tail :
        pre \in {"arn:", ""}, part \in Partitions \cup {"aws-eu"}, svc \in {"iam", "s3"},
        acct \in ArnAccounts, res \in {"role/", "user/", ""}, name \in ArnNames,
        tail \in {"", "\n"}}
      \cup {"", "not-an-arn", "arn:aws:iam:123456789012:role/MyRole",
            "ARN:aws:iam::123456789012:role/MyRole",
            "xarn:aws:iam::123456789012:role/MyRole",
            "arn:aws:iam::123456789012:role/MyRole:role/x"}

RegionNames ==
    validAWSRegions
        \cup {"", "us-east-99", "invalid-region", "us-eats-1", "not-a-region",
              "us-standard", "us- east-1", "us-east-1x", "us-east"}

Paddings == {Rep(" ", n) : n \in 0..MaxSlack} \cup {"\t", "\n"}

RegionInputs ==
    {l \o r \o t : l \in Paddings, t \in Paddings,
                   r \in RegionNames \cup {ToUpper(x) : x \in RegionNames}}
      \cup {"Us-East-1", "us-EAST-1"}

ValInit ==
    val \in [fn : {"ValidateRoleArn"}, in : ArnInputs, done : {FALSE}, err : {NoErr}]
        \cup [fn : {"ValidateSTSRegion"}, in : RegionInputs, done : {FALSE}, err : {NoErr}]

ValIdle == val = [fn |-> "none", in |-> "", done |-> FALSE, err |-> NoErr]

CallValidateRoleArn ==
    /\ val.fn = "ValidateRoleArn" /\ ~val.done
    /\ val' = [val EXCEPT !.done = TRUE, !.err = ValidateRoleArn(val.in)]

CallValidateSTSRegion ==
    /\ val.fn = "ValidateSTSRegion" /\ ~val.done
    /\ val' = [val EXCEPT !.done = TRUE, !.err = ValidateSTSRegion(val.in)]


(***************************************************************************)
(* Contexts and the logger                                                 *)
(***************************************************************************)
CtxIds == {"call", "client"}

Canceled == "context canceled"

DeadlineExceeded == "context deadline exceeded"

\* ctx.Err()
CtxErrOf(c) == IF ctxErr[c] = "live" THEN NoErr ELSE <<ctxErr[c]>>

\* what http.Client.Do returns for a transport error: a *url.Error around it
UrlError(cause) == Wrap("url.Error", cause)

parseLogLevel(level) ==
    CASE ToUpper(level) = "DEBUG" -> "DEBUG"
      [] ToUpper(level) = "INFO" -> "INFO"
      [] ToUpper(level) = "WARN" -> "WARN"
      [] ToUpper(level) = "ERROR" -> "ERROR"
      [] OTHER -> "INFO"

\* slog's level numbers
LevelRank(l) ==
    CASE l = "DEBUG" -> -4 [] l = "INFO" -> 0 [] l = "WARN" -> 4 [] OTHER -> 8

\* one record of the JSON handler on os.Stdout, when the level is enabled
LogTo(o, level, msg, attrs) ==
    IF Logger # "nil" /\ LevelRank(level) >= LevelRank(Logger)
    THEN o \cup {[kind |-> "log", level |-> level, msg |-> msg, attrs |-> attrs]}
    ELSE o

(***************************************************************************)
(* Inputs of the program                                                   *)
(***************************************************************************)
SessionNameLimit == 32

LogLevels == {"DEBUG", "ERROR"}

Configs == [PrintIdToken : BOOLEAN, LogLevel : LogLevels]

RoleArnArgs == {"", "arn:aws:iam::123456789012:role/MyRole", "not-an-arn"}

RegionArgs == {"us-east-1", "us-east-99"}

SessionIdFlags == {"", "X", Rep("x", SessionNameLimit + MaxSlack)}

SessionIdEnvs == {"", "Y", Rep("y", SessionNameLimit + MaxSlack)}

ProjectIds == {"p", "janus-go"}

Hostnames ==
    {"h", "janus-go-instance-hostname"}
        \cup {Rep("h", n) : n \in (SessionNameLimit - Len("p-") - MaxSlack)
                                    ..(SessionNameLimit - Len("p-") + MaxSlack)}

OsHostnames == {"local", Rep("o", SessionNameLimit + MaxSlack)}

(***************************************************************************)
(* Start of the program                                                    *)
(***************************************************************************)
GsiIdle ==
    [entryCtx |-> "live", flag |-> "", env |-> "", projectID |-> "", hostname |-> "", mdReqs |-> 0,
     hostLookups |-> 0, osHostname |-> [ok |-> FALSE, value |-> ""],
     source |-> "none", createErr |-> NoErr, ret |-> "", err |-> NoErr]

\* no default credentials
NoCred == [found |-> FALSE, json |-> FALSE, type |-> ""]

\* fetched is the metadata strategy's outcome ("none" when it was not tried), cred
\* what FindDefaultCredentials returned, localErr generateIdentityToken's error
\* no answer of the OAuth2 token endpoint
NoResp == [kind |-> "none", status |-> 0, wellFormed |-> FALSE, text |-> "", idToken |-> ""]

\* resp is what client.Do and io.ReadAll gave the refreshable-user branch and
\* written the records this call gave the logger's handler
TsIdle ==
    [entryCtx |-> "live", onGCE |-> FALSE, audEnv |-> "", cred |-> NoCred, requests |-> {},
     fetched |-> "none", triedLocal |-> FALSE, resp |-> NoResp, source |-> "none",
     token |-> "", localErr |-> NoErr, err |-> NoErr, written |-> {}]

\* the zero aws.Credentials
NoCredentials ==
    [AccessKeyID |-> "", SecretAccessKey |-> "", SessionToken |-> "", Expires |-> 0]

\* ret is the returned *AWSTempCredentials: << >> is nil, <<c>> points to c;
\* got is what Retrieve returned and cause the error it or the config load returned
\* tokenCalls counts the exchange library's GetIdentityToken invocations and
\* tokenFetches the provider requests they made
GcIdle ==
    [region |-> "", configLoads |-> 0, stsReqs |-> 0, tokenCalls |-> 0, tokenFetches |-> 0,
     stsReq |-> [RoleArn |-> "", RoleSessionName |-> "", WebIdentityToken |-> ""],
     got |-> NoCredentials, cause |-> NoErr, ret |-> << >>, err |-> NoErr]

\* calls counts the operations a caller other than main has invoked
MainIdle ==
    [roleArn |-> "", sessionIdentifier |-> "", token |-> "", exit |-> "none", calls |-> 0]

ProgInit ==
    /\ pc = "init"
    /\ ctxErr = [c \in CtxIds |-> "live"]
    /\ clientCtx = "call"
    /\ Logger = "nil"
    /\ globalConfig = [PrintIdToken |-> FALSE, LogLevel |-> ""]
    /\ main = MainIdle
    /\ gsi = GsiIdle
    /\ ts = TsIdle
    /\ gc = GcIdle
    /\ out = {}

InitLogger(level) ==
    /\ pc = "init"
    /\ Logger' = parseLogLevel(level)
    /\ pc' = "config"
    /\ UNCHANGED <<ctxErr, clientCtx, globalConfig, main, gsi, ts, gc, out, val>>

SetConfig(config) ==
    /\ pc = "config"
    /\ globalConfig' = config
    /\ pc' = "main"
    /\ UNCHANGED <<ctxErr, clientCtx, Logger, main, gsi, ts, gc, out, val>>

\* main: the flags, the context and the metadata client; a missing role ARN exits
Main(roleArn, cctx) ==
    /\ pc = "main"
    /\ clientCtx' = cctx
    /\ IF roleArn = ""
       THEN /\ main' = [main EXCEPT !.exit = "failure"]
            /\ pc' = "exit"
       ELSE /\ main' = [main EXCEPT !.roleArn = roleArn]
            /\ pc' = "gsi"
    /\ UNCHANGED <<ctxErr, Logger, globalConfig, gsi, ts, gc, out, val>>

\* the caller's cancel(), or the deadline of a context passing
Cancel(c, kind) ==
    /\ pc \in {"gsi", "gsi_project", "gsi_project_wait", "gsi_hostname",
               "gsi_hostname_wait", "gsi_failed", "ts", "ts_fetch", "ts_local",
               "gc", "gc_wait"}
    /\ c \in {"call", clientCtx}
    /\ ctxErr[c] = "live"
    /\ ctxErr' = [ctxErr EXCEPT ![c] = kind]
    /\ UNCHANGED <<pc, clientCtx, Logger, globalConfig, main, gsi, ts, gc, out, val>>


(***************************************************************************)
(* gcp: the session identifier resolver                                    *)
(***************************************************************************)
\* what a request on the wire can come back with: the value, a network failure,
\* or the transport's context error once the request's context (t.ctx) is done
MetadataResponses(values) ==
    [kind : {"ok"}, value : values]
        \cup {[kind |-> "unreachable", value |-> ""]}
        \cup (IF CtxErrOf(clientCtx) # NoErr
              THEN {[kind |-> "aborted", value |-> ""]} ELSE {})

ResponseErr(r) ==
    IF r.kind = "aborted" THEN UrlError(CtxErrOf(clientCtx))
    ELSE UrlError(<<"dial tcp: connection refused">>)

ProjectIDMsg == "couldn't fetch ProjectID from GCP metadata server"

HostnameMsg == "couldn't fetch Hostname from GCP metadata server"

\* EarlyReturn looking at the environment variable before the flag
EarlyReturn_envFirst(sessionIdFlag, envSessionId) ==
    IF CtxErrOf("call") # NoErr
    THEN [returns |-> TRUE, ret |-> "", source |-> "none", err |-> CtxErrOf("call")]
    ELSE IF envSessionId # ""
    THEN [returns |-> TRUE, ret |-> envSessionId, source |-> "env", err |-> NoErr]
    ELSE IF sessionIdFlag # ""
    THEN [returns |-> TRUE, ret |-> sessionIdFlag, source |-> "flag", err |-> NoErr]
    ELSE [returns |-> FALSE, ret |-> "", source |-> "none", err |-> NoErr]

\* EarlyReturn without the check of the context that comes first
EarlyReturn_noCtxCheck(sessionIdFlag, envSessionId) ==
    IF sessionIdFlag # ""
    THEN [returns |-> TRUE, ret |-> sessionIdFlag, source |-> "flag", err |-> NoErr]
    ELSE IF envSessionId # ""
    THEN [returns |-> TRUE, ret |-> envSessionId, source |-> "env", err |-> NoErr]
    ELSE [returns |-> FALSE, ret |-> "", source |-> "none", err |-> NoErr]

\* GetSessionIdentifier's returns before any metadata is asked for: the context,
\* the flag, the environment variable, in this order
EarlyReturn(sessionIdFlag, envSessionId) ==
    IF CtxErrOf("call") # NoErr
    THEN [returns |-> TRUE, ret |-> "", source |-> "none", err |-> CtxErrOf("call")]
    ELSE IF sessionIdFlag # ""
    THEN [returns |-> TRUE, ret |-> sessionIdFlag, source |-> "flag", err |-> NoErr]
    ELSE IF envSessionId # ""
    THEN [returns |-> TRUE, ret |-> envSessionId, source |-> "env", err |-> NoErr]
    ELSE [returns |-> FALSE, ret |-> "", source |-> "none", err |-> NoErr]

\* GetSessionIdentifier up to its call of CreateSessionIdentifier
GetSessionIdentifier(sessionIdFlag, envSessionId) ==
    /\ pc = "gsi"
    /\ LET f == [GsiIdle EXCEPT !.entryCtx = ctxErr["call"], !.flag = sessionIdFlag,
                                !.env = envSessionId]
           e == EarlyReturn(sessionIdFlag, envSessionId)
       IN
         IF e.returns
         THEN /\ gsi' = [f EXCEPT !.ret = e.ret, !.source = e.source, !.err = e.err]
              /\ pc' = "gsi_done"
              /\ out' = out
         ELSE IF Logger = "nil"
         THEN /\ gsi' = f
              /\ pc' = "panic"
              /\ out' = out
         ELSE /\ gsi' = f
              /\ pc' = "gsi_project"
              /\ out' = LogTo(out, "DEBUG",
                              "Attempting to create session identifier from GCP metadata", {})
    /\ UNCHANGED <<ctxErr, clientCtx, Logger, globalConfig, main, ts, gc, val>>

\* a metadata fetch up to the request leaving: the wrapper's ctx.Err() check, then
\* contextTransport.RoundTrip's check of the client's context
MetadataFetch(at, msg, wait) ==
    /\ pc = at
    /\ IF CtxErrOf("call") # NoErr
       THEN /\ gsi' = [gsi EXCEPT !.createErr = Wrap(msg, CtxErrOf("call"))]
            /\ pc' = "gsi_failed"
       ELSE IF CtxErrOf(clientCtx) # NoErr
       THEN /\ gsi' = [gsi EXCEPT !.createErr = Wrap(msg, UrlError(CtxErrOf(clientCtx)))]
            /\ pc' = "gsi_failed"
       ELSE /\ gsi' = [gsi EXCEPT !.mdReqs = @ + 1]
            /\ pc' = wait
    /\ UNCHANGED <<ctxErr, clientCtx, Logger, globalConfig, main, ts, gc, out, val>>

ProjectIDWithContext == MetadataFetch("gsi_project", ProjectIDMsg, "gsi_project_wait")

HostnameWithContext == MetadataFetch("gsi_hostname", HostnameMsg, "gsi_hostname_wait")

ProjectIDResponse(r) ==
    /\ pc = "gsi_project_wait"
    /\ r \in MetadataResponses(ProjectIds)
    /\ IF r.kind = "ok"
       THEN /\ gsi' = [gsi EXCEPT !.projectID = r.value]
            /\ pc' = "gsi_hostname"
       ELSE /\ gsi' = [gsi EXCEPT !.createErr = Wrap(ProjectIDMsg, ResponseErr(r))]
            /\ pc' = "gsi_failed"
    /\ UNCHANGED <<ctxErr, clientCtx, Logger, globalConfig, main, ts, gc, out, val>>

\* s[:n] of Go: a run-time panic when n exceeds len(s)
SliceTo(s, n) == IF n > Len(s) THEN [panic |-> TRUE, value |-> ""]
                 ELSE [panic |-> FALSE, value |-> SubSeq(s, 1, n)]

\* CreateSessionIdentifier cutting two characters later
SessionIdentifierOf_late(projectID, hostname) ==
    SliceTo(projectID \o "-" \o hostname, SessionNameLimit + 2)

\* fmt.Sprintf("%s-%s", projectID, hostname)[:32]
SessionIdentifierOf(projectID, hostname) ==
    SliceTo(projectID \o "-" \o hostname, SessionNameLimit)

\* the hostname's answer and the rest of CreateSessionIdentifier
HostnameResponse(r) ==
    /\ pc = "gsi_hostname_wait"
    /\ r \in MetadataResponses(Hostnames)
    /\ IF r.kind = "ok"
       THEN LET id == SessionIdentifierOf(gsi.projectID, r.value) IN
            IF id.panic
            THEN /\ gsi' = [gsi EXCEPT !.hostname = r.value]
                 /\ pc' = "panic"
            ELSE /\ gsi' = [gsi EXCEPT !.hostname = r.value, !.ret = id.value,
                                       !.source = "metadata"]
                 /\ pc' = "gsi_done"
       ELSE /\ gsi' = [gsi EXCEPT !.createErr = Wrap(HostnameMsg, ResponseErr(r))]
            /\ pc' = "gsi_failed"
    /\ UNCHANGED <<ctxErr, clientCtx, Logger, globalConfig, main, ts, gc, out, val>>

OsHostnameResults ==
    [ok : {TRUE}, value : OsHostnames] \cup {[ok |-> FALSE, value |-> ""]}

\* the fallback cutting the OS hostname like the metadata-derived identifier
FallbackResult_truncated(h) ==
    IF h.ok
    THEN [ret |-> IF Len(h.value) > SessionNameLimit
                      THEN SubSeq(h.value, 1, SessionNameLimit) ELSE h.value,
          source |-> "hostname", err |-> NoErr]
    ELSE [ret |-> "", source |-> "none",
          err |-> Wrap("couldn't determine session identifier", <<"hostname: lookup failed">>)]

\* what GetSessionIdentifier returns from os.Hostname()'s result h
FallbackResult(h) ==
    IF h.ok
    THEN [ret |-> h.value, source |-> "hostname", err |-> NoErr]
    ELSE [ret |-> "", source |-> "none",
          err |-> Wrap("couldn't determine session identifier", <<"hostname: lookup failed">>)]

\* Fallback without the check of the context that precedes the hostname lookup
Fallback_noCtxCheck(h) ==
    /\ pc = "gsi_failed"
    /\ h \in OsHostnameResults
    /\ LET o1 == LogTo(out, "DEBUG",
                  "Failed to create session identifier from GCP metadata, falling back to OS hostname",
                  {})
           f == FallbackResult(h)
       IN
         /\ gsi' = [gsi EXCEPT !.hostLookups = @ + 1, !.osHostname = h,
                               !.ret = f.ret, !.source = f.source, !.err = f.err]
         /\ pc' = "gsi_done"
         /\ out' = IF h.ok
                   THEN LogTo(o1, "DEBUG", "Using local hostname as session identifier",
                              {h.value})
                   ELSE o1
    /\ UNCHANGED <<ctxErr, clientCtx, Logger, globalConfig, main, ts, gc, val>>

\* GetSessionIdentifier after CreateSessionIdentifier failed
Fallback(h) ==
    /\ pc = "gsi_failed"
    /\ h \in OsHostnameResults
    /\ IF CtxErrOf("call") # NoErr
       THEN /\ gsi' = [gsi EXCEPT !.err = CtxErrOf("call")]
            /\ pc' = "gsi_done"
            /\ out' = out
       ELSE IF Logger = "nil"
       THEN /\ gsi' = gsi
            /\ pc' = "panic"
            /\ out' = out
       ELSE LET o1 == LogTo(out, "DEBUG",
                        "Failed to create session identifier from GCP metadata, falling back to OS hostname",
                        {})
                f == FallbackResult(h)
            IN
              /\ gsi' = [gsi EXCEPT !.hostLookups = @ + 1, !.osHostname = h,
                                    !.ret = f.ret, !.source = f.source, !.err = f.err]
              /\ pc' = "gsi_done"
              /\ out' = IF h.ok
                        THEN LogTo(o1, "DEBUG", "Using local hostname as session identifier",
                                   {h.value})
                        ELSE o1
    /\ UNCHANGED <<ctxErr, clientCtx, Logger, globalConfig, main, ts, gc, val>>

\* main after the resolver returned: a fatal error, or the identifier is kept.
\* The resolver's locals are gone; gsi keeps what the identifier was made from.
\* The metadata client and a context of its own are not used again.
MainAfterGsi ==
    /\ pc = "gsi_done"
    /\ IF gsi.err # NoErr
       THEN /\ main' = [main EXCEPT !.exit = "failure"]
            /\ out' = LogTo(out, "ERROR", "failed to create session identifier", {})
            /\ pc' = "exit"
       ELSE /\ main' = [main EXCEPT !.sessionIdentifier = gsi.ret]
            /\ out' = out
            /\ pc' = "ts"
    /\ gsi' = [GsiIdle EXCEPT !.projectID = gsi.projectID, !.hostname = gsi.hostname,
                              !.source = gsi.source, !.ret = gsi.ret]
    /\ clientCtx' = "call"
    /\ ctxErr' = [ctxErr EXCEPT !["client"] = "live"]
    /\ UNCHANGED <<Logger, globalConfig, ts, gc, val>>


(***************************************************************************)
(* gcp: the identity token provider                                        *)
(***************************************************************************)
defaultAudience == "gcp"

googleCloudSDKAudience == "32555940559.apps.googleusercontent.com"

AudienceEnvs == {"", "custom-audience"}

\* os.Getenv("IDENTITY_TOKEN_AUDIENCE"), defaulted
AudienceOf(audEnv) == IF audEnv = "" THEN defaultAudience ELSE audEnv

\* a token endpoint's answer; a request made under a done context fails with the
\* context's error inside the client's *url.Error
TokenResponses ==
    IF CtxErrOf("call") # NoErr
    THEN {[kind |-> "aborted", status |-> 0, wellFormed |-> FALSE, text |-> "", idToken |-> ""]}
    ELSE {[kind |-> "unreachable", status |-> 0, wellFormed |-> FALSE, text |-> "", idToken |-> ""],
          [kind |-> "answer", status |-> 200, wellFormed |-> TRUE, text |-> "{id_token}",
           idToken |-> "id.jwt"],
          [kind |-> "answer", status |-> 200, wellFormed |-> TRUE, text |-> "{}",
           idToken |-> ""],
          [kind |-> "answer", status |-> 200, wellFormed |-> FALSE, text |-> "<html>",
           idToken |-> ""],
          [kind |-> "answer", status |-> 400, wellFormed |-> TRUE, text |-> "{error}",
           idToken |-> ""]}

TokenRequestErr(r) ==
    IF r.kind = "aborted" THEN UrlError(CtxErrOf("call"))
    ELSE UrlError(<<"dial tcp: connection refused">>)

\* google.FindDefaultCredentials: credentials with the "type" of their JSON,
\* credentials without JSON (those of the compute platform), or none
CredentialOutcomes ==
    [found : {TRUE}, json : {TRUE},
     type : {"authorized_user", "service_account", "external_account", ""}]
        \cup {[found |-> TRUE, json |-> FALSE, type |-> ""], NoCred}

\* the token logged at DEBUG whatever the configuration says
printIdentityTokenIfEnabled_ungated(o, token) ==
    LogTo(o, "DEBUG", "Google identity token", {token})

\* printIdentityTokenIfEnabled on a static token source
printIdentityTokenIfEnabled(o, token) ==
    IF globalConfig.PrintIdToken /\ globalConfig.LogLevel = "DEBUG"
    THEN LogTo(o, "DEBUG", "Google identity token", {token})
    ELSE o

\* TokenSource going to the local credentials whatever the platform
FirstStrategy_localOnly(onGCE) == "ts_local"

\* if metadata.OnGCE() { fetchInstanceIdentityToken ... }
FirstStrategy(onGCE) == IF onGCE THEN "ts_fetch" ELSE "ts_local"

\* TokenSource up to its first strategy
TokenSource(onGCE, audEnv) ==
    /\ pc = "ts"
    /\ ts' = [TsIdle EXCEPT !.entryCtx = ctxErr["call"], !.onGCE = onGCE, !.audEnv = audEnv]
    /\ pc' = FirstStrategy(onGCE)
    /\ UNCHANGED <<ctxErr, clientCtx, Logger, globalConfig, main, gsi, gc, out, val>>

\* fetchInstanceIdentityToken and what TokenSource does with its result
fetchInstanceIdentityToken(r) ==
    /\ pc = "ts_fetch"
    /\ r \in TokenResponses
    /\ LET reqs == IF r.kind = "aborted" THEN ts.requests
                   ELSE ts.requests \cup {[to |-> "metadata", audience |-> AudienceOf(ts.audEnv)]}
       IN
         IF r.kind = "answer" /\ r.status = 200
         THEN /\ ts' = [ts EXCEPT !.requests = reqs, !.fetched = "ok", !.token = "gce.jwt",
                                  !.source = "metadata",
                                  !.written = printIdentityTokenIfEnabled(@, "gce.jwt")]
              /\ out' = printIdentityTokenIfEnabled(out, "gce.jwt")
              /\ pc' = IF Logger = "nil" /\ globalConfig.PrintIdToken
                            /\ globalConfig.LogLevel = "DEBUG"
                       THEN "panic" ELSE "ts_done"
         ELSE /\ ts' = [ts EXCEPT !.requests = reqs, !.fetched = "failed",
                                  !.written = LogTo(@, "DEBUG",
                                                    "Failed to get GCE instance token", {})]
              /\ out' = LogTo(out, "DEBUG", "Failed to get GCE instance token", {})
              /\ pc' = IF Logger = "nil" THEN "panic" ELSE "ts_local"
    /\ UNCHANGED <<ctxErr, clientCtx, Logger, globalConfig, main, gsi, gc, val>>

\* the error without the type that was found
UnsupportedTypeError_unnamed(type) == <<"unsupported credential type">>

\* fmt.Errorf("unsupported credential type: %s", cf.Type)
UnsupportedTypeError(type) == <<"unsupported credential type: " \o type>>

\* generateIdentityToken's result for a credential and the endpoint's answer
generateIdentityTokenResult(cred, r, audEnv) ==
    IF ~cred.found
    THEN [token |-> "", requests |-> {},
          err |-> Wrap("failed to get default credentials",
                       <<"could not find default credentials">>)]
    ELSE IF ~cred.json
    THEN [token |-> "", requests |-> {},
          err |-> Wrap("failed to parse credentials", <<"unexpected end of JSON input">>)]
    ELSE IF cred.type = "authorized_user"
    THEN LET req == {[to |-> "oauth2", audience |-> googleCloudSDKAudience]} IN
         IF r.kind # "answer"
         THEN [token |-> "", requests |-> IF r.kind = "aborted" THEN {} ELSE req,
               err |-> Wrap("failed to execute token request", TokenRequestErr(r))]
         ELSE IF r.status # 200
         THEN [token |-> "", requests |-> req,
               err |-> <<"token request failed with status: " \o r.text>>]
         ELSE IF ~r.wellFormed
         THEN [token |-> "", requests |-> req,
               err |-> Wrap("failed to parse token response", <<"invalid character">>)]
         ELSE [token |-> r.idToken, requests |-> req, err |-> NoErr]
    ELSE IF cred.type = "service_account"
    THEN LET req == {[to |-> "oauth2", audience |-> AudienceOf(audEnv)]} IN
         IF r.kind = "answer" /\ r.status = 200 /\ r.wellFormed /\ r.idToken # ""
         THEN [token |-> "sa.jwt", requests |-> req, err |-> NoErr]
         ELSE [token |-> "", requests |-> IF r.kind = "aborted" THEN {} ELSE req,
               err |-> Wrap("failed to generate token", <<"oauth2: cannot fetch token">>)]
    ELSE [token |-> "", requests |-> {}, err |-> UnsupportedTypeError(cred.type)]

\* generateIdentityToken and the rest of TokenSource
generateIdentityToken(cred, r) ==
    /\ pc = "ts_local"
    /\ cred \in CredentialOutcomes
    /\ r \in TokenResponses
    /\ LET g == generateIdentityTokenResult(cred, r, ts.audEnv)
           a == IF cred.found /\ cred.json /\ cred.type = "authorized_user" THEN r ELSE NoResp
       IN
         IF g.err # NoErr
         THEN /\ ts' = [ts EXCEPT !.triedLocal = TRUE, !.cred = cred, !.resp = a,
                                  !.requests = @ \cup g.requests, !.localErr = g.err,
                                  !.err = Wrap("failed to get identity token", g.err)]
              /\ out' = out
              /\ pc' = "ts_done"
         ELSE /\ ts' = [ts EXCEPT !.triedLocal = TRUE, !.cred = cred, !.resp = a,
                                  !.requests = @ \cup g.requests,
                                  !.token = g.token, !.source = "local",
                                  !.written = printIdentityTokenIfEnabled(@, g.token)]
              /\ out' = printIdentityTokenIfEnabled(out, g.token)
              /\ pc' = IF Logger = "nil" /\ globalConfig.PrintIdToken
                            /\ globalConfig.LogLevel = "DEBUG"
                       THEN "panic" ELSE "ts_done"
    /\ UNCHANGED <<ctxErr, clientCtx, Logger, globalConfig, main, gsi, gc, val>>

\* main after the provider returned
MainAfterTs ==
    /\ pc = "ts_done"
    /\ IF ts.err # NoErr
       THEN /\ main' = [main EXCEPT !.exit = "failure"]
            /\ out' = LogTo(out, "ERROR", "failed to retrieve GCP identity token", {})
            /\ pc' = "exit"
       ELSE /\ main' = [main EXCEPT !.token = ts.token]
            /\ out' = out
            /\ pc' = "gc"
    /\ UNCHANGED <<ctxErr, clientCtx, Logger, globalConfig, gsi, ts, gc, val>>


(***************************************************************************)
(* aws: the federation exchange client                                     *)
(***************************************************************************)
\* CustomIdentityTokenRetriever.GetIdentityToken on the static token source:
\* the token TokenSource fetched, and no request to any provider
GetIdentityToken(token) == [token |-> token, fetches |-> 0, err |-> NoErr]

StsCredentials ==
    {[AccessKeyID |-> "AKIA1", SecretAccessKey |-> "secret1", SessionToken |-> "session1",
      Expires |-> 1],
     [AccessKeyID |-> "AKIA2", SecretAccessKey |-> "secret2", SessionToken |-> "session2",
      Expires |-> 2]}

StsErrorCodes == {"InvalidIdentityToken", "ExpiredTokenException"}

StsResponses ==
    IF CtxErrOf("call") # NoErr
    THEN {[ok |-> FALSE, creds |-> NoCredentials, err |-> UrlError(CtxErrOf("call"))]}
    ELSE [ok : {TRUE}, creds : StsCredentials, err : {NoErr}]
           \cup [ok : {FALSE}, creds : {NoCredentials}, err : {<<c>> : c \in StsErrorCodes}]

\* the returned credential with the secret key and the session token in each
\* other's place
AWSTempCredentialsOf_swapped(creds) ==
    [Version |-> 1, AccessKeyId |-> creds.AccessKeyID,
     SecretAccessKey |-> creds.SessionToken,
     SessionToken |-> creds.SecretAccessKey,
     Expiration |-> creds.Expires]

\* &types.AWSTempCredentials{...} of GetCredentials
AWSTempCredentialsOf(creds) ==
    [Version |-> 1, AccessKeyId |-> creds.AccessKeyID,
     SecretAccessKey |-> creds.SecretAccessKey,
     SessionToken |-> creds.SessionToken,
     Expiration |-> creds.Expires]

ConfigLoadErr == <<"config: load failed">>

LoadConfigError(cause) == Wrap("failed to load AWS config", cause)

\* the error formatted with %v: the cause's text is kept, the cause is not
RetrieveError_flattened(cause) ==
    <<"failed to retrieve AWS credentials: " \o cause[1]>>

RetrieveError(cause) == Wrap("failed to retrieve AWS credentials", cause)

\* GetCredentials handing out again the credentials an earlier call obtained
GetCredentials_cached(stsRegion, configOk) ==
    /\ pc = "gc"
    /\ LET f == [GcIdle EXCEPT !.region = stsRegion]
           o1 == LogTo(out, "DEBUG", "Creating AWS STS configuration for region", {stsRegion})
           o3 == LogTo(LogTo(o1, "DEBUG", "Creating AWS STS client", {main.roleArn, stsRegion}),
                       "DEBUG", "Retrieving AWS credentials", {main.sessionIdentifier})
       IN
         IF Logger = "nil"
         THEN /\ gc' = f
              /\ out' = out
              /\ pc' = "panic"
         ELSE IF ~configOk
         THEN /\ gc' = [f EXCEPT !.configLoads = @ + 1, !.cause = ConfigLoadErr,
                                 !.err = LoadConfigError(ConfigLoadErr)]
              /\ out' = o1
              /\ pc' = "gc_done"
         ELSE IF val.fn = "GetCredentials" /\ val.in.ret # << >>
         THEN /\ gc' = [f EXCEPT !.configLoads = @ + 1, !.got = val.in.got,
                                 !.ret = val.in.ret]
              /\ out' = o3
              /\ pc' = "gc_done"
         ELSE /\ gc' = [f EXCEPT !.configLoads = @ + 1, !.stsReqs = @ + 1,
                                 !.tokenCalls = @ + 1,
                                 !.tokenFetches = @ + GetIdentityToken(main.token).fetches,
                                 !.stsReq = [RoleArn |-> main.roleArn,
                                             RoleSessionName |-> main.sessionIdentifier,
                                             WebIdentityToken |-> GetIdentityToken(main.token).token]]
              /\ out' = o3
              /\ pc' = "gc_wait"
    /\ UNCHANGED <<ctxErr, clientCtx, Logger, globalConfig, main, gsi, ts, val>>

\* GetCredentials up to the AssumeRoleWithWebIdentity request of Retrieve
GetCredentials(stsRegion, configOk) ==
    /\ pc = "gc"
    /\ LET f == [GcIdle EXCEPT !.region = stsRegion]
           o1 == LogTo(out, "DEBUG", "Creating AWS STS configuration for region", {stsRegion})
           o2 == LogTo(o1, "DEBUG", "Creating AWS STS client", {main.roleArn, stsRegion})
           o3 == LogTo(o2, "DEBUG", "Retrieving AWS credentials", {main.sessionIdentifier})
       IN
         IF Logger = "nil"
         THEN /\ gc' = f
              /\ out' = out
              /\ pc' = "panic"
         ELSE IF ~configOk
         THEN /\ gc' = [f EXCEPT !.configLoads = @ + 1, !.cause = ConfigLoadErr,
                                 !.err = LoadConfigError(ConfigLoadErr)]
              /\ out' = o1
              /\ pc' = "gc_done"
         ELSE /\ gc' = [f EXCEPT !.configLoads = @ + 1, !.stsReqs = @ + 1,
                                 !.tokenCalls = @ + 1,
                                 !.tokenFetches = @ + GetIdentityToken(main.token).fetches,
                                 !.stsReq = [RoleArn |-> main.roleArn,
                                             RoleSessionName |-> main.sessionIdentifier,
                                             WebIdentityToken |-> GetIdentityToken(main.token).token]]
              /\ out' = o3
              /\ pc' = "gc_wait"
    /\ UNCHANGED <<ctxErr, clientCtx, Logger, globalConfig, main, gsi, ts, val>>

\* StsResponse with the credentials among the attributes of the success record
StsResponse_logsCreds(r) ==
    /\ pc = "gc_wait"
    /\ r \in StsResponses
    /\ IF r.ok
       THEN /\ gc' = [gc EXCEPT !.got = r.creds, !.ret = <<AWSTempCredentialsOf(r.creds)>>]
            /\ out' = LogTo(out, "DEBUG", "Successfully retrieved AWS credentials",
                            {main.roleArn, gc.region, main.sessionIdentifier,
                             r.creds.AccessKeyID, r.creds.SecretAccessKey,
                             r.creds.SessionToken})
       ELSE /\ gc' = [gc EXCEPT !.cause = r.err, !.err = RetrieveError(r.err)]
            /\ out' = out
    /\ pc' = "gc_done"
    /\ UNCHANGED <<ctxErr, clientCtx, Logger, globalConfig, main, gsi, ts, val>>

\* the federation service's answer and the rest of GetCredentials
StsResponse(r) ==
    /\ pc = "gc_wait"
    /\ r \in StsResponses
    /\ IF r.ok
       THEN /\ gc' = [gc EXCEPT !.got = r.creds, !.ret = <<AWSTempCredentialsOf(r.creds)>>]
            /\ out' = LogTo(out, "DEBUG", "Successfully retrieved AWS credentials",
                            {main.roleArn, gc.region, main.sessionIdentifier})
       ELSE /\ gc' = [gc EXCEPT !.cause = r.err, !.err = RetrieveError(r.err)]
            /\ out' = out
    /\ pc' = "gc_done"
    /\ UNCHANGED <<ctxErr, clientCtx, Logger, globalConfig, main, gsi, ts, val>>

\* main after the exchange returned: a fatal error, or the credentials are printed
MainAfterGc ==
    /\ pc = "gc_done"
    /\ IF gc.err # NoErr
       THEN /\ main' = [main EXCEPT !.exit = "failure"]
            /\ out' = LogTo(out, "ERROR", "failed to retrieve AWS credentials", {})
       ELSE /\ main' = [main EXCEPT !.exit = "success"]
            /\ out' = out \cup {[kind |-> "credentials", level |-> "", msg |-> "",
                                 attrs |-> {gc.ret[1].AccessKeyId, gc.ret[1].SecretAccessKey,
                                            gc.ret[1].SessionToken}]}
    /\ pc' = "exit"
    /\ ts' = TsIdle
    /\ UNCHANGED <<ctxErr, clientCtx, Logger, globalConfig, gsi, gc, val>>

(***************************************************************************)
(* types: AWSTempCredentials and its JSON form                             *)
(*                                                                         *)
(* In this section a Go string is the sequence of its bytes, each byte a   *)
(* token: an ASCII character, or xNN for the byte 0xNN.  A time.Time is    *)
(* its clock reading in its own zone and the zone's offset in seconds.     *)
(***************************************************************************)
\* Go's integer division, which truncates toward zero
TruncDiv(a, b) == IF a >= 0 THEN a \div b ELSE -((-a) \div b)

DigitVal(c) == (CHOOSE i \in 1..10 : CharAt("0123456789", i) = c) - 1

RECURSIVE Itoa(_)
Itoa(n) ==
    IF n < 0 THEN "-" \o Itoa(-n)
    ELSE IF n < 10 THEN CharAt("0123456789", n + 1)
    ELSE Itoa(n \div 10) \o CharAt("0123456789", (n % 10) + 1)

RECURSIVE Atoi(_)
Atoi(s) ==
    IF s = "" THEN 0
    ELSE IF CharAt(s, 1) = "-" THEN -Atoi(Drop(s, 1))
    ELSE Atoi(SubSeq(s, 1, Len(s) - 1)) * 10 + DigitVal(CharAt(s, Len(s)))

\* n in decimal, zero-padded to w digits
Pad(n, w) == Rep("0", w - Len(Itoa(n))) \o Itoa(n)

RECURSIVE Pow10(_)
Pow10(k) == IF k <= 0 THEN 1 ELSE 10 * Pow10(k - 1)

RECURSIVE TrimZeros(_)
TrimZeros(s) ==
    IF s # "" /\ CharAt(s, Len(s)) = "0" THEN TrimZeros(SubSeq(s, 1, Len(s) - 1)) ELSE s

\* the number of digits s starts with
RECURSIVE DigitRun(_)
DigitRun(s) ==
    IF s # "" /\ CharAt(s, 1) \in Digits THEN 1 + DigitRun(Drop(s, 1)) ELSE 0

\* the days from 1970-01-01 to the given date of the proleptic Gregorian calendar
DaysFromCivil(y, m, d) ==
    LET yy == IF m <= 2 THEN y - 1 ELSE y
        era == yy \div 400
        yoe == yy - era * 400
        mp == IF m > 2 THEN m - 3 ELSE m + 9
        doy == (153 * mp + 2) \div 5 + d - 1
        doe == yoe * 365 + yoe \div 4 - yoe \div 100 + doy
    IN era * 146097 + doe - 719468

\* the instant a time.Time denotes: day, second of the day, nanosecond, in UTC
Instant(t) ==
    LET secs == t.hour * 3600 + t.min * 60 + t.sec - t.offset IN
      [day |-> DaysFromCivil(t.year, t.month, t.day) + secs \div 86400,
       sod |-> secs % 86400, nsec |-> t.nsec]

\* Time.Equal
TimeEqual(a, b) == Instant(a) = Instant(b)

\* the fraction of layout .999999999: no trailing zeros, nothing for zero
Frac(nsec) == IF nsec = 0 THEN "" ELSE "." \o TrimZeros(Pad(nsec, 9))

\* the zone of layout Z07:00: Z for UTC, else sign, hours and minutes
Zone(offset) ==
    IF offset = 0 THEN "Z"
    ELSE LET zone == TruncDiv(offset, 60)
             z == IF zone < 0 THEN -zone ELSE zone
         IN (IF zone < 0 THEN "-" ELSE "+") \o Pad(z \div 60, 2) \o ":" \o Pad(z % 60, 2)

\* the layout time.RFC3339, which has no fraction of a second
FormatRFC3339_seconds(t) ==
    Pad(t.year, 4) \o "-" \o Pad(t.month, 2) \o "-" \o Pad(t.day, 2) \o "T"
        \o Pad(t.hour, 2) \o ":" \o Pad(t.min, 2) \o ":" \o Pad(t.sec, 2)
        \o Zone(t.offset)

\* the layout time.RFC3339Nano, which Time.MarshalJSON writes
FormatRFC3339Nano(t) ==
    Pad(t.year, 4) \o "-" \o Pad(t.month, 2) \o "-" \o Pad(t.day, 2) \o "T"
        \o Pad(t.hour, 2) \o ":" \o Pad(t.min, 2) \o ":" \o Pad(t.sec, 2)
        \o Frac(t.nsec) \o Zone(t.offset)

\* Time.MarshalJSON: the quoted text, or an error for what RFC 3339 cannot say
MarshalTime(t) ==
    LET b == FormatRFC3339Nano(t) IN
      IF CharAt(b, Len("9999") + 1) # "-"
      THEN [text |-> "", err |-> <<"Time.MarshalJSON: year outside of range [0,9999]">>]
      ELSE IF CharAt(b, Len(b)) # "Z"
                /\ (CharAt(b, Len(b) - Len("07:00")) \in Digits
                      \/ Atoi(SubSeq(b, Len(b) - Len("7:00"), Len(b) - Len(":00"))) >= 24)
      THEN [text |-> "", err |-> <<"Time.MarshalJSON: timezone hour outside of range [0,23]">>]
      ELSE [text |-> "\"" \o b \o "\"", err |-> NoErr]

\* Time.UnmarshalJSON on a quoted RFC 3339 text
UnmarshalTime(text) ==
    LET s == SubSeq(text, 2, Len(text) - 1)
        rest == Drop(s, Len("2006-01-02T15:04:05"))
        hasFrac == rest # "" /\ CharAt(rest, 1) = "."
        fracLen == IF hasFrac THEN DigitRun(Drop(rest, 1)) ELSE 0
        z == IF hasFrac THEN Drop(rest, 1 + fracLen) ELSE rest
    IN [year |-> Atoi(SubSeq(s, 1, 4)), month |-> Atoi(SubSeq(s, 6, 7)),
        day |-> Atoi(SubSeq(s, 9, 10)), hour |-> Atoi(SubSeq(s, 12, 13)),
        min |-> Atoi(SubSeq(s, 15, 16)), sec |-> Atoi(SubSeq(s, 18, 19)),
        nsec |-> IF hasFrac
                 THEN Atoi(SubSeq(rest, 2, 1 + fracLen)) * Pow10(9 - fracLen) ELSE 0,
        offset |-> IF z = "Z" THEN 0
                   ELSE (IF CharAt(z, 1) = "-" THEN -1 ELSE 1)
                          * (Atoi(SubSeq(z, 2, 3)) * 60 + Atoi(SubSeq(z, 5, 6))) * 60]

\* bytes that are not ASCII
Lead2 == {"xc3"}

Lead3 == {"xef"}

Cont == {"xa9", "xbf", "xbd"}

NonAscii == Lead2 \cup Lead3 \cup Cont \cup {"xff"}

\* the length of the UTF-8 sequence s starts with, 0 when it starts with none
RuneLen(s) ==
    IF s[1] \notin NonAscii THEN 1
    ELSE IF s[1] \in Lead2 /\ Len(s) >= 2 /\ s[2] \in Cont THEN 2
    ELSE IF s[1] \in Lead3 /\ Len(s) >= 3 /\ s[2] \in Cont /\ s[3] \in Cont THEN 3
    ELSE 0

\* U+FFFD, the replacement character, in UTF-8
ReplacementChar == <<"xef", "xbf", "xbd">>

\* what the encoder writes for one ASCII byte
EscapeByte(c) ==
    CASE c = "\"" -> <<"\\", "\"">>
      [] c = "\\" -> <<"\\", "\\">>
      [] c = "\n" -> <<"\\", "n">>
      [] c = "\t" -> <<"\\", "t">>
      [] c = "<" -> <<"\\", "u", "0", "0", "3", "c">>
      [] c = ">" -> <<"\\", "u", "0", "0", "3", "e">>
      [] c = "&" -> <<"\\", "u", "0", "0", "2", "6">>
      [] OTHER -> <<c>>

\* the body of a JSON string as json.Marshal writes it: escapes, and U+FFFD for
\* every byte that is not part of valid UTF-8
RECURSIVE EncodeBytes(_)
EncodeBytes(s) ==
    IF s = << >> THEN << >>
    ELSE IF RuneLen(s) = 0
    THEN <<"\\", "u", "f", "f", "f", "d">> \o EncodeBytes(Tail(s))
    ELSE IF RuneLen(s) = 1 THEN EscapeByte(s[1]) \o EncodeBytes(Tail(s))
    ELSE SubSeq(s, 1, RuneLen(s)) \o EncodeBytes(SubSeq(s, RuneLen(s) + 1, Len(s)))

EncodeString(s) == <<"\"">> \o EncodeBytes(s) \o <<"\"">>

\* the bytes of the code points the encoder writes as \uXXXX
UnicodeEscape(h) ==
    CASE h = <<"0", "0", "3", "c">> -> <<"<">>
      [] h = <<"0", "0", "3", "e">> -> <<">">>
      [] h = <<"0", "0", "2", "6">> -> <<"&">>
      [] OTHER -> ReplacementChar

\* the body of a JSON string read back
RECURSIVE DecodeBytes(_)
DecodeBytes(w) ==
    IF w = << >> THEN << >>
    ELSE IF w[1] = "\\" /\ Len(w) >= 2
    THEN CASE w[2] = "n" -> <<"\n">> \o DecodeBytes(SubSeq(w, 3, Len(w)))
           [] w[2] = "t" -> <<"\t">> \o DecodeBytes(SubSeq(w, 3, Len(w)))
           [] w[2] = "u" /\ Len(w) >= 6
                -> UnicodeEscape(SubSeq(w, 3, 6)) \o DecodeBytes(SubSeq(w, 7, Len(w)))
           [] OTHER -> <<w[2]>> \o DecodeBytes(SubSeq(w, 3, Len(w)))
    ELSE IF RuneLen(w) = 0 THEN ReplacementChar \o DecodeBytes(Tail(w))
    ELSE SubSeq(w, 1, RuneLen(w)) \o DecodeBytes(SubSeq(w, RuneLen(w) + 1, Len(w)))

\* the first quote of w that no backslash escapes, 0 when there is none
RECURSIVE ClosingQuote(_, _)
ClosingQuote(w, i) ==
    IF i > Len(w) THEN 0
    ELSE IF w[i] = "\\" THEN ClosingQuote(w, i + 2)
    ELSE IF w[i] = "\"" THEN i
    ELSE ClosingQuote(w, i + 1)

\* a JSON string read back: it ends at its first unescaped quote, and text after
\* that quote is a syntax error
DecodeString(w) ==
    LET q == ClosingQuote(w, 2) IN
      IF Len(w) < 2 \/ w[1] # "\"" \/ q # Len(w)
      THEN [value |-> << >>, err |-> <<"invalid character after top-level value">>]
      ELSE [value |-> DecodeBytes(SubSeq(w, 2, Len(w) - 1)), err |-> NoErr]

ZeroTime ==
    [year |-> 1, month |-> 1, day |-> 1, hour |-> 0, min |-> 0, sec |-> 0, nsec |-> 0,
     offset |-> 0]

\* the zero AWSTempCredentials
ZeroCred ==
    [Version |-> 0, AccessKeyId |-> << >>, SecretAccessKey |-> << >>,
     SessionToken |-> << >>, Expiration |-> ZeroTime]

NoWire ==
    [Version |-> "", AccessKeyId |-> << >>, SecretAccessKey |-> << >>,
     SessionToken |-> << >>, Expiration |-> ""]

\* json.Marshal of an AWSTempCredentials: the text of each member of the object
Marshal(c) ==
    LET t == MarshalTime(c.Expiration) IN
      IF t.err # NoErr
      THEN [wire |-> NoWire,
            err |-> Wrap("json: error calling MarshalJSON for type time.Time", t.err)]
      ELSE [wire |-> [Version |-> Itoa(c.Version),
                      AccessKeyId |-> EncodeString(c.AccessKeyId),
                      SecretAccessKey |-> EncodeString(c.SecretAccessKey),
                      SessionToken |-> EncodeString(c.SessionToken),
                      Expiration |-> t.text],
            err |-> NoErr]

\* json.Unmarshal into an AWSTempCredentials
Unmarshal(wire) ==
    LET a == DecodeString(wire.AccessKeyId)
        k == DecodeString(wire.SecretAccessKey)
        t == DecodeString(wire.SessionToken)
    IN IF a.err # NoErr \/ k.err # NoErr \/ t.err # NoErr
       THEN [value |-> ZeroCred, err |-> a.err \o k.err \o t.err]
       ELSE [value |-> [Version |-> Atoi(wire.Version), AccessKeyId |-> a.value,
                        SecretAccessKey |-> k.value, SessionToken |-> t.value,
                        Expiration |-> UnmarshalTime(wire.Expiration)],
             err |-> NoErr]

(***************************************************************************)
(* The credentials that are serialized                                     *)
(***************************************************************************)
ExpirationBase ==
    [year |-> 2024, month |-> 2, day |-> 29, hour |-> 23, min |-> 59, sec |-> 58,
     nsec |-> 0, offset |-> 0]

Expirations ==
    {[ExpirationBase EXCEPT !.nsec = n] : n \in {0, 1, 500000000, 123456789, 120000000}}
        \cup {[ExpirationBase EXCEPT !.offset = o, !.nsec = n] :
                o \in {3600, -19800, 30, -30, 86400}, n \in {0, 123456789}}
        \cup {[ExpirationBase EXCEPT !.year = y] : y \in {1, 9999, 10000}}

AccessKeyIds == {<<"A", "K", "I", "A">>, << >>, <<"a", "\"", "b">>, <<"xff">>}

SecretAccessKeys ==
    {<<"s", "+", "/", "=">>, <<"\\", "n">>, <<"<", "&", ">">>, <<"xc3", "xa9">>, <<"xc3">>}

SessionTokens == {<<"t">>, <<"\n", "\t">>, ReplacementChar, <<"a", "xa9">>}

CredInputs ==
    [Version : {1, 12, -3}, AccessKeyId : AccessKeyIds, SecretAccessKey : SecretAccessKeys,
     SessionToken : SessionTokens, Expiration : Expirations]

RoundTripInit ==
    val \in [fn : {"RoundTrip"}, in : CredInputs, marshalled : {FALSE}, done : {FALSE},
             wire : {NoWire}, parsed : {ZeroCred}, err : {NoErr}]

\* jsonData, err := json.Marshal(credentials)
CallMarshal ==
    /\ val.fn = "RoundTrip" /\ ~val.marshalled
    /\ LET m == Marshal(val.in) IN
         val' = [val EXCEPT !.marshalled = TRUE, !.wire = m.wire, !.err = m.err,
                            !.done = (m.err # NoErr)]

\* err = json.Unmarshal(jsonData, &parsedCredentials)
CallUnmarshal ==
    /\ val.fn = "RoundTrip" /\ val.marshalled /\ ~val.done
    /\ LET u == Unmarshal(val.wire) IN
         val' = [val EXCEPT !.done = TRUE, !.parsed = u.value, !.err = u.err]

(***************************************************************************)
(* Specifications                                                          *)
(***************************************************************************)
Init == ProgInit /\ ValIdle

Next ==
    \/ \E level \in LogLevels : InitLogger(level)
    \/ \E config \in Configs : SetConfig(config)
    \/ \E roleArn \in RoleArnArgs, cctx \in CtxIds : Main(roleArn, cctx)
    \/ \E c \in CtxIds, kind \in {Canceled, DeadlineExceeded} : Cancel(c, kind)
    \/ \E f \in SessionIdFlags, e \in SessionIdEnvs : GetSessionIdentifier(f, e)
    \/ ProjectIDWithContext
    \/ \E r \in MetadataResponses(ProjectIds) : ProjectIDResponse(r)
    \/ HostnameWithContext
    \/ \E r \in MetadataResponses(Hostnames) : HostnameResponse(r)
    \/ \E h \in OsHostnameResults : Fallback(h)
    \/ MainAfterGsi
    \/ \E onGCE \in BOOLEAN, audEnv \in AudienceEnvs : TokenSource(onGCE, audEnv)
    \/ \E r \in TokenResponses : fetchInstanceIdentityToken(r)
    \/ \E cred \in CredentialOutcomes, r \in TokenResponses : generateIdentityToken(cred, r)
    \/ MainAfterTs
    \/ \E region \in RegionArgs, configOk \in BOOLEAN : GetCredentials(region, configOk)
    \/ \E r \in StsResponses : StsResponse(r)
    \/ MainAfterGc

Spec == Init /\ [][Next]_vars

\* the validators, each applied to every input
InitValidate == ProgInit /\ ValInit

NextValidate ==
    \/ CallValidateRoleArn /\ UNCHANGED <<pc, ctxErr, clientCtx, Logger, globalConfig, main, gsi, ts, gc, out>>
    \/ CallValidateSTSRegion /\ UNCHANGED <<pc, ctxErr, clientCtx, Logger, globalConfig, main, gsi, ts, gc, out>>

SpecValidate == InitValidate /\ [][NextValidate]_vars

\* the credentials' JSON form written and read back, for every credential
InitRoundTrip == ProgInit /\ RoundTripInit

NextRoundTrip ==
    \/ CallMarshal /\ UNCHANGED <<pc, ctxErr, clientCtx, Logger, globalConfig, main, gsi, ts, gc, out>>
    \/ CallUnmarshal /\ UNCHANGED <<pc, ctxErr, clientCtx, Logger, globalConfig, main, gsi, ts, gc, out>>

SpecRoundTrip == InitRoundTrip /\ [][NextRoundTrip]_vars

\* a caller of the packages other than main (a test, another program): the
\* operations in any order, each with its own arguments
MaxCalls == 2

Operations == {"gsi", "ts", "gc"}

CallerRoleArn == "arn:aws:iam::123456789012:role/janus"

CallerSessionIdentifier == "janus-go-host"

CallerToken == "id.jwt"

CallerInitLogger(level) ==
    /\ pc = "idle"
    /\ Logger' = parseLogLevel(level)
    /\ UNCHANGED <<pc, ctxErr, clientCtx, globalConfig, main, gsi, ts, gc, out, val>>

CallerSetConfig(config) ==
    /\ pc = "idle"
    /\ globalConfig' = config
    /\ UNCHANGED <<pc, ctxErr, clientCtx, Logger, main, gsi, ts, gc, out, val>>

\* the call of GetSessionIdentifier, TokenSource or GetCredentials
Call(op) ==
    /\ pc = "idle"
    /\ main.calls < MaxCalls
    /\ main' = [main EXCEPT !.roleArn = CallerRoleArn,
                            !.sessionIdentifier = CallerSessionIdentifier,
                            !.token = CallerToken, !.calls = @ + 1]
    /\ pc' = op
    /\ UNCHANGED <<ctxErr, clientCtx, Logger, globalConfig, gsi, ts, gc, out, val>>

\* the operation returns and its locals are gone; the caller keeps what the first
\* call it made returned and did
Return ==
    /\ pc \in {"gsi_done", "ts_done", "gc_done"}
    /\ LET frame == IF pc = "gsi_done" THEN gsi ELSE IF pc = "ts_done" THEN ts ELSE gc
           name == IF pc = "gsi_done" THEN "GetSessionIdentifier"
                   ELSE IF pc = "ts_done" THEN "TokenSource" ELSE "GetCredentials"
       IN val' = IF val.fn # "none" THEN val
                 ELSE [fn |-> name, in |-> frame, done |-> TRUE, err |-> frame.err]
    /\ gsi' = GsiIdle
    /\ ts' = TsIdle
    /\ gc' = GcIdle
    /\ pc' = "idle"
    /\ UNCHANGED <<ctxErr, clientCtx, Logger, globalConfig, main, out>>

InitCalls ==
    /\ pc = "idle"
    /\ ctxErr = [c \in CtxIds |-> "live"]
    /\ clientCtx = "call"
    /\ Logger = "nil"
    /\ globalConfig = [PrintIdToken |-> FALSE, LogLevel |-> ""]
    /\ main = MainIdle
    /\ gsi = GsiIdle
    /\ ts = TsIdle
    /\ gc = GcIdle
    /\ out = {}
    /\ ValIdle

NextCalls ==
    \/ \E level \in LogLevels : CallerInitLogger(level)
    \/ \E config \in Configs : CallerSetConfig(config)
    \/ \E op \in Operations : Call(op)
    \/ \E e \in {"", CallerSessionIdentifier} : GetSessionIdentifier("", e)
    \/ ProjectIDWithContext
    \/ \E r \in MetadataResponses({"janus-go"}) : ProjectIDResponse(r)
    \/ HostnameWithContext
    \/ \E r \in MetadataResponses({"h", "janus-go-instance-hostname"}) : HostnameResponse(r)
    \/ \E h \in OsHostnameResults : Fallback(h)
    \/ \E onGCE \in BOOLEAN : TokenSource(onGCE, "")
    \/ \E r \in TokenResponses : fetchInstanceIdentityToken(r)
    \/ \E cred \in CredentialOutcomes, r \in TokenResponses : generateIdentityToken(cred, r)
    \/ \E configOk \in BOOLEAN : GetCredentials("us-east-1", configOk)
    \/ \E r \in StsResponses : StsResponse(r)
    \/ Return

SpecCalls == InitCalls /\ [][NextCalls]_vars

\* a caller giving one level string to the logger and to the configuration, as
\* main does with its -loglevel flag, and then asking for a token
LevelStrings ==
    {"DEBUG", "debug", "Debug", "INFO", "info", "Info", "WARN", "warn", "Warn",
     "ERROR", "error", "Error", "", "TRACE", "verbose", " DEBUG", "DEBUG "}

InitLevels ==
    /\ pc = "idle"
    /\ ctxErr = [c \in CtxIds |-> "live"]
    /\ clientCtx = "call"
    /\ Logger = "nil"
    /\ globalConfig = [PrintIdToken |-> FALSE, LogLevel |-> ""]
    /\ main = MainIdle
    /\ gsi = GsiIdle
    /\ ts = TsIdle
    /\ gc = GcIdle
    /\ out = {}
    /\ val \in [fn : {"LogLevel"}, in : LevelStrings, done : {FALSE}, err : {NoErr}]

NextLevels ==
    \/ CallerInitLogger(val.in)
    \/ \E p \in BOOLEAN : CallerSetConfig([PrintIdToken |-> p, LogLevel |-> val.in])
    \/ Call("ts")
    \/ \E onGCE \in BOOLEAN : TokenSource(onGCE, "")
    \/ \E r \in TokenResponses : fetchInstanceIdentityToken(r)
    \/ \E cred \in CredentialOutcomes, r \in TokenResponses : generateIdentityToken(cred, r)
    \/ Return

SpecLevels == InitLevels /\ [][NextLevels]_vars


(***************************************************************************)
(* Properties                                                              *)
(***************************************************************************)
\* s cut to its first n characters, the whole of s when it is shorter
TruncatedTo(s, n) == IF Len(s) <= n THEN s ELSE SubSeq(s, 1, n)

\* C1: with the flag and the environment value empty and a live context, once the
\* metadata service has returned project id p and host name h the resolver returns
\* normally, with no error, p-h cut to 32 characters (all of p-h when it is shorter).
C1_MetadataIdentifier ==
    (gsi.flag = "" /\ gsi.env = "" /\ gsi.projectID # "" /\ gsi.hostname # ""
        /\ ctxErr["call"] = "live" /\ pc \in {"gsi_done", "panic"})
    => /\ pc = "gsi_done"
       /\ gsi.err = NoErr
       /\ gsi.ret = TruncatedTo(gsi.projectID \o "-" \o gsi.hostname, SessionNameLimit)

\* C2: every identifier GetSessionIdentifier returns without error is at most 32
\* characters long, whichever source produced it.
C2_AtMost32 ==
    (pc = "gsi_done" /\ gsi.err = NoErr) => Len(gsi.ret) <= SessionNameLimit

\* C3: called with a live context, a non-empty flag is returned verbatim whatever the
\* environment holds, and with the flag empty a non-empty environment value is
\* returned verbatim; in both cases no metadata request and no hostname lookup is made.
C3_Precedence ==
    (pc = "gsi_done" /\ gsi.entryCtx = "live")
    => /\ gsi.flag # ""
          => (gsi.ret = gsi.flag /\ gsi.err = NoErr /\ gsi.mdReqs = 0 /\ gsi.hostLookups = 0)
       /\ (gsi.flag = "" /\ gsi.env # "")
          => (gsi.ret = gsi.env /\ gsi.err = NoErr /\ gsi.mdReqs = 0 /\ gsi.hostLookups = 0)

C3_Witness ==
    pc = "gsi_done" /\ gsi.entryCtx = "live" /\ gsi.flag = "X" /\ gsi.env = "Y"
        /\ gsi.ret = "X"

\* C4: called with a context that is already cancelled or past its deadline, the
\* resolver returns the context's own error, unwrapped, for every flag and environment
\* value, and makes no metadata request and no hostname lookup.
C4_CancelledAtEntry ==
    (pc = "gsi_done" /\ gsi.entryCtx # "live")
    => /\ gsi.err = <<gsi.entryCtx>>
       /\ gsi.err = CtxErrOf("call")
       /\ gsi.ret = ""
       /\ gsi.mdReqs = 0
       /\ gsi.hostLookups = 0

C4_Witness ==
    pc = "gsi_done" /\ gsi.entryCtx = DeadlineExceeded /\ gsi.flag = "X"
        /\ gsi.err = <<DeadlineExceeded>>

\* C5: called with a context that is already cancelled, TokenSource returns the
\* context's cancellation error itself and, once the metadata strategy has failed,
\* does not go on to the local-credential strategy.
C5_ProviderCancelled ==
    (pc = "ts_done" /\ ts.entryCtx # "live")
    => /\ ts.err = <<ts.entryCtx>>
       /\ ~(ts.onGCE /\ ts.triedLocal)

\* C6: GetCredentials validates the role ARN and the region first: for an invalid
\* role ARN or region no AWS configuration is loaded and no STS request is issued.
C6_ValidateFirst ==
    (pc \in {"gc_wait", "gc_done"}
        /\ (ValidateRoleArn(main.roleArn) # NoErr \/ ValidateSTSRegion(gc.region) # NoErr))
    => (gc.configLoads = 0 /\ gc.stsReqs = 0 /\ gc.err # NoErr)

\* the first ":" of s, 0 when there is none
ColonAt(s) ==
    IF \E i \in 1..Len(s) : CharAt(s, i) = ":"
    THEN CHOOSE i \in 1..Len(s) :
            CharAt(s, i) = ":" /\ \A j \in 1..(i - 1) : CharAt(s, j) # ":"
    ELSE 0

\* s split at its colons
RECURSIVE ColonFields(_)
ColonFields(s) ==
    IF ColonAt(s) = 0 THEN <<s>>
    ELSE <<SubSeq(s, 1, ColonAt(s) - 1)>> \o ColonFields(Drop(s, ColonAt(s)))

\* arn:<partition>:iam::<account>:role/<name>, read field by field
IsRoleArn(s) ==
    LET f == ColonFields(s) IN
      /\ Len(f) = 6
      /\ f[1] = "arn"
      /\ f[2] \in {"aws", "aws-cn", "aws-us-gov"}
      /\ f[3] = "iam"
      /\ f[4] = ""
      /\ Len(f[5]) = 12 /\ AllIn(f[5], Digits)
      /\ HasPrefix(f[6], "role/")
      /\ Len(f[6]) > Len("role/")
      /\ AllIn(Drop(f[6], Len("role/")), RoleChars)

\* C7: ValidateRoleArn returns no error exactly for arn:<partition>:iam::<account>:
\* role/<name> with one of the three partitions, a 12-digit account and a non-empty
\* role name, and an error for every other string.
C7_RoleArnGrammar ==
    (val.fn = "ValidateRoleArn" /\ val.done)
    => ((val.err = NoErr) <=> IsRoleArn(val.in))

C7_Witness ==
    val.fn = "ValidateRoleArn" /\ val.done /\ val.err = NoErr
        /\ val.in = "arn:aws-us-gov:iam::123456789012:role/service/MyRole"

\* s is region r inside surrounding whitespace, letter case aside
IsRegionLoosely(s, r) ==
    \E i \in 0..Len(s) :
        /\ Len(s) >= i + Len(r)
        /\ AllIn(SubSeq(s, 1, i), SpaceChars)
        /\ AllIn(Drop(s, i + Len(r)), SpaceChars)
        /\ \A k \in 1..Len(r) : LowerChar(CharAt(s, i + k)) = CharAt(r, k)

\* C8: ValidateSTSRegion returns no error exactly for the strings that, trimmed of
\* surrounding whitespace and lower-cased, are in the valid-region set; the empty
\* string, whitespace alone and us-east-99 are rejected.
C8_RegionSet ==
    (val.fn = "ValidateSTSRegion" /\ val.done)
    => /\ (val.err = NoErr) <=> (\E r \in validAWSRegions : IsRegionLoosely(val.in, r))
       /\ (AllIn(val.in, SpaceChars) \/ val.in = "us-east-99") => val.err # NoErr

C8_Witness ==
    val.fn = "ValidateSTSRegion" /\ val.done /\ val.err = NoErr
        /\ val.in = " US-EAST-1\t"

\* C9: with the flag and the environment value empty, a live context and the
\* metadata fetch failed, the resolver looks the OS hostname up and, when the lookup
\* succeeds, returns that hostname verbatim with no error.
C9_HostnameFallback ==
    /\ (pc = "panic" => gsi.createErr = NoErr)
    /\ (pc = "gsi_done" /\ gsi.flag = "" /\ gsi.env = "" /\ ctxErr["call"] = "live"
            /\ gsi.createErr # NoErr)
       => /\ gsi.hostLookups = 1
          /\ gsi.osHostname.ok => (gsi.ret = gsi.osHostname.value /\ gsi.err = NoErr)

C9_Witness ==
    pc = "gsi_done" /\ gsi.source = "hostname" /\ gsi.ret = "local"
        /\ gsi.createErr = Wrap(ProjectIDMsg, UrlError(<<"dial tcp: connection refused">>))

\* the end-to-end scenario: the identifier came from project janus-go and host
\* janus-go-instance-hostname
C10_Scenario ==
    gsi.source = "metadata" /\ gsi.projectID = "janus-go"
        /\ gsi.hostname = "janus-go-instance-hostname"

\* C10 as stated: in the scenario the identifier is janus-go-janus-go-instance-hostnam,
\* 32 characters long, and the exchange receives it as the session name.
C10_AsStated ==
    C10_Scenario
    => /\ gsi.ret = "janus-go-janus-go-instance-hostnam"
       /\ Len(gsi.ret) = 32
       /\ gc.stsReqs > 0 => gc.stsReq.RoleSessionName = gsi.ret

\* C10: in the scenario the identifier is janus-go-janus-go-instance-hostn, the first
\* 32 characters of janus-go-janus-go-instance-hostname, and the exchange receives
\* that same string as the session name.
C10_EndToEnd ==
    C10_Scenario
    => /\ gsi.ret = "janus-go-janus-go-instance-hostn"
       /\ Len(gsi.ret) = 32
       /\ gc.stsReqs > 0 => gc.stsReq.RoleSessionName = gsi.ret

C10_Witness ==
    C10_Scenario /\ pc = "gc_wait"
        /\ gc.stsReq.RoleSessionName = "janus-go-janus-go-instance-hostn"

\* C11: whenever GetCredentials succeeds, the credential it returns has Version 1
\* and the access key, secret key, session token and expiry the federation service
\* returned for that call, each in its own field.
C11_CredentialMapping ==
    (pc = "gc_done" /\ gc.err = NoErr)
    => /\ gc.got \in StsCredentials
       /\ gc.ret = <<[Version |-> 1,
                      AccessKeyId |-> gc.got.AccessKeyID,
                      SecretAccessKey |-> gc.got.SecretAccessKey,
                      SessionToken |-> gc.got.SessionToken,
                      Expiration |-> gc.got.Expires]>>

C11_Witness ==
    pc = "gc_done" /\ gc.err = NoErr /\ gc.got.AccessKeyID = "AKIA2"
        /\ gc.ret[1].SessionToken = "session2" /\ gc.ret[1].Expiration = 2

\* err ends with the chain cause
EndsWith(err, cause) ==
    Len(err) >= Len(cause)
        /\ SubSeq(err, Len(err) - Len(cause) + 1, Len(err)) = cause

\* C12: when the configuration load or the federation call fails, GetCredentials
\* returns nil and an error whose chain holds the underlying error unchanged; it
\* returns a credential or an error, never both and never neither.
C12_FailureWrapped ==
    pc = "gc_done"
    => /\ (gc.ret = << >>) <=> (gc.err # NoErr)
       /\ (gc.cause # NoErr) <=> (gc.err # NoErr)
       /\ gc.cause # NoErr
            => (gc.ret = << >> /\ Len(gc.err) > Len(gc.cause) /\ EndsWith(gc.err, gc.cause))

C12_Witness ==
    pc = "gc_done" /\ gc.stsReqs = 1 /\ gc.ret = << >>
        /\ gc.cause = <<"ExpiredTokenException">>
        /\ gc.err = <<"failed to retrieve AWS credentials", "ExpiredTokenException">>
\* C13: the provider's strategies run in order. The metadata strategy runs only on
\* the native platform; when its request succeeds that token is returned and the
\* default credentials are never loaded; the local strategy runs only off the
\* platform or after the metadata request failed; an error is returned only when
\* the local strategy, the last one, failed.
C13_StrategyOrder ==
    pc = "ts_done"
    => /\ ts.fetched # "none" <=> ts.onGCE
       /\ ts.fetched = "ok"
            => (ts.token = "gce.jwt" /\ ts.source = "metadata" /\ ts.err = NoErr
                    /\ ~ts.triedLocal /\ ts.cred = NoCred
                    /\ \A q \in ts.requests : q.to = "metadata")
       /\ ts.triedLocal <=> (~ts.onGCE \/ ts.fetched = "failed")
       /\ ts.err # NoErr
            => (ts.triedLocal /\ ts.localErr # NoErr /\ ts.token = ""
                    /\ ts.err = Wrap("failed to get identity token", ts.localErr))
       /\ (ts.triedLocal /\ ts.localErr = NoErr) => (ts.err = NoErr /\ ts.source = "local")

C13_Witness ==
    pc = "ts_done" /\ ts.onGCE /\ ts.fetched = "failed" /\ ts.triedLocal
        /\ ts.cred.type = "service_account" /\ ts.token = "sa.jwt"

\* C14: for default credentials whose type is neither authorized_user nor
\* service_account, the empty type included, generateIdentityToken and TokenSource
\* return an error naming the type and no token, and no token request is made.
C14_UnsupportedType ==
    (pc = "ts_done" /\ ts.triedLocal /\ ts.cred.found
        /\ ts.cred.type \notin {"authorized_user", "service_account"})
    => /\ ts.token = ""
       /\ ts.source = "none"
       /\ ts.err # NoErr
       /\ ts.cred.json
            => ts.err = <<"failed to get identity token",
                          "unsupported credential type: " \o ts.cred.type>>
       /\ \A q \in ts.requests : q.to # "oauth2"

C14_Witness ==
    pc = "ts_done" /\ ts.cred = [found |-> TRUE, json |-> TRUE, type |-> "external_account"]
        /\ ts.err = <<"failed to get identity token",
                      "unsupported credential type: external_account">>

\* C15: when IDENTITY_TOKEN_AUDIENCE is set, every token request the provider
\* makes, in whichever branch, carries that audience; the default audience is
\* used only when the variable is empty.
C15_AudienceOverride ==
    pc = "ts_done"
    => /\ ts.audEnv # "" => \A q \in ts.requests : q.audience = ts.audEnv
       /\ ts.audEnv = "" => \A q \in ts.requests : q.to = "metadata" => q.audience = defaultAudience
\* C16: on every path that ends in a fatal error the process exits with a failure
\* status and nothing has been written to standard output, the stream the
\* credentials are emitted on.
C16_NothingOnFailure ==
    (pc = "exit" /\ main.exit # "success") => (main.exit = "failure" /\ out = {})

\* the secret access keys and session tokens the federation service can return
Secrets == {c.SecretAccessKey : c \in StsCredentials} \cup {c.SessionToken : c \in StsCredentials}

\* C17: no log record, of any component and at any level, holds the secret access
\* key or the session token of a credential.
C17_NoSecretLogged ==
    \A e \in out : e.kind = "log" => e.attrs \cap Secrets = {}

C17_Witness ==
    /\ pc = "exit" /\ main.exit = "success" /\ Logger = "DEBUG"
    /\ gc.got.SecretAccessKey = "secret1"
    /\ \E e \in out : e.kind = "log" /\ e.msg = "Successfully retrieved AWS credentials"
    /\ \E e \in out : e.kind = "credentials" /\ "secret1" \in e.attrs

\* the non-empty identity tokens the provider can produce
Tokens == {"gce.jwt", "id.jwt", "sa.jwt"}

\* C18: the raw identity token is written only by the provider's DEBUG record
\* Google identity token, and only when the print-identity-token flag is set and
\* the configured log level is DEBUG; nothing else written holds the token.
C18_TokenPrintGated ==
    \A e \in out :
        e.attrs \cap Tokens # {}
        => /\ e.kind = "log" /\ e.level = "DEBUG" /\ e.msg = "Google identity token"
           /\ globalConfig.PrintIdToken
           /\ globalConfig.LogLevel = "DEBUG"

C18_Witness ==
    /\ pc = "ts_done" /\ ts.token = "sa.jwt"
    /\ \E e \in out : e.msg = "Google identity token" /\ e.attrs = {"sa.jwt"}
\* C20: however a cancellation or a deadline interleaves with the resolver's
\* steps, once the metadata fetch has failed with the resolver's context done, the
\* resolver's next step returns that context's error itself, with no identifier
\* and without looking the OS hostname up.
C20_CancelDuringFetch ==
    [][(pc = "gsi_failed" /\ ctxErr["call"] # "live" /\ pc' # "gsi_failed")
        => /\ pc' = "gsi_done"
           /\ gsi'.err = <<ctxErr["call"]>>
           /\ gsi'.ret = "" /\ gsi'.source = "none"
           /\ gsi'.hostLookups = 0]_vars

\* the context was live at entry and cancelled while a metadata request was out
C20_Witness ==
    /\ pc = "gsi_done" /\ gsi.entryCtx = "live" /\ gsi.mdReqs = 2
    /\ gsi.createErr # NoErr /\ gsi.err = <<Canceled>> /\ gsi.hostLookups = 0
\* the two credentials agree field by field, the expirations as instants
SameCredential(a, b) ==
    /\ a.Version = b.Version
    /\ a.AccessKeyId = b.AccessKeyId
    /\ a.SecretAccessKey = b.SecretAccessKey
    /\ a.SessionToken = b.SessionToken
    /\ TimeEqual(a.Expiration, b.Expiration)

\* s is valid UTF-8
RECURSIVE ValidUTF8(_)
ValidUTF8(s) ==
    s = << >> \/ (RuneLen(s) > 0 /\ ValidUTF8(SubSeq(s, RuneLen(s) + 1, Len(s))))

\* C19 as stated: every AWSTempCredentials value, written as JSON and read back,
\* comes back with equal Version, AccessKeyId, SecretAccessKey and SessionToken and
\* an Expiration that is the same instant.
C19_AsStated ==
    (val.fn = "RoundTrip" /\ val.done)
    => (val.err = NoErr /\ SameCredential(val.in, val.parsed))

\* C19: an AWSTempCredentials value whose three strings are valid UTF-8 and whose
\* Expiration has a year from 0 to 9999 and a zone offset of whole minutes, less
\* than 24 hours, written as JSON and read back, comes back with equal Version,
\* AccessKeyId, SecretAccessKey and SessionToken and an Expiration that is the same
\* instant.
C19_RoundTrip ==
    (val.fn = "RoundTrip" /\ val.done
        /\ ValidUTF8(val.in.AccessKeyId) /\ ValidUTF8(val.in.SecretAccessKey)
        /\ ValidUTF8(val.in.SessionToken)
        /\ val.in.Expiration.year \in 0..9999
        /\ val.in.Expiration.offset % 60 = 0
        /\ val.in.Expiration.offset > -86400 /\ val.in.Expiration.offset < 86400)
    => (val.err = NoErr /\ SameCredential(val.in, val.parsed))

C19_Witness ==
    /\ val.fn = "RoundTrip" /\ val.done /\ val.err = NoErr
    /\ val.in.AccessKeyId = <<"a", "\"", "b">>
    /\ val.in.SecretAccessKey = <<"\\", "n">>
    /\ val.in.Expiration.nsec = 123456789 /\ val.in.Expiration.offset = -19800
    /\ val.wire.Expiration = "\"2024-02-29T23:59:58.123456789-05:30\""
    /\ val.parsed.SecretAccessKey = <<"\\", "n">>

\* the messages of an error chain
Messages(err) == {err[i] : i \in 1..Len(err)}

\* the innermost error of a chain
RootCause(err) == err[Len(err)]

\* C21: when the flag and the environment variable are empty, the metadata server
\* gives no identifier and the operating system's hostname lookup fails,
\* GetSessionIdentifier returns the empty identifier and an error whose chain holds
\* both causes: the metadata failure and the hostname-lookup failure.
C21_BothCauses ==
    (pc = "gsi_done" /\ gsi.flag = "" /\ gsi.env = "" /\ gsi.createErr # NoErr
        /\ gsi.hostLookups = 1 /\ ~gsi.osHostname.ok)
    => /\ gsi.ret = ""
       /\ gsi.err # NoErr
       /\ "hostname: lookup failed" \in Messages(gsi.err)
       /\ RootCause(gsi.createErr) \in Messages(gsi.err)

\* C22: the token supplier handed to the exchange is lazy: when GetCredentials is
\* entered no assertion has been fetched from a provider, and every invocation of
\* GetIdentityToken by the exchange library fetches one.
C22_LazySupplier ==
    /\ pc = "gc" => (ts.requests = {} /\ main.token = "")
    /\ pc \in {"gc_wait", "gc_done"} => gc.tokenFetches = gc.tokenCalls

\* C24: in the refreshable-user-credential branch, an answer of the token endpoint
\* with a status other than 200, or whose body is not a well-formed JSON object
\* carrying the issued token, makes generateIdentityToken return an error and no
\* token; for a status other than 200 the error's text holds the response body.
C24_BadTokenResponse ==
    (pc = "ts_done" /\ ts.resp.kind = "answer"
        /\ (ts.resp.status # 200 \/ ~ts.resp.wellFormed \/ ts.resp.idToken = ""))
    => /\ ts.localErr # NoErr
       /\ ts.token = ""
       /\ ts.resp.status # 200
            => \E i \in 1..Len(ts.localErr) :
                 EndsWith(ts.localErr[i], ts.resp.text)

\* C25: a metadata request obeys the context passed to the call and not the one
\* the client was created with: a call whose own context is live never fails with
\* a context error.
C25_CallContextGoverns ==
    (pc = "gsi_failed" /\ ctxErr["call"] = "live")
    => RootCause(gsi.createErr) \notin {Canceled, DeadlineExceeded}

\* C27: whenever TokenSource returns without an error its token is not empty, for
\* every credential type and every answer of the token endpoint.
C27_TokenNotEmpty ==
    (pc = "ts_done" /\ ts.err = NoErr) => ts.token # ""

\* C29 as stated: every string ValidateSTSRegion accepts is itself, unchanged, a
\* member of the valid-region set.
C29_AcceptedIsMember ==
    (val.fn = "ValidateSTSRegion" /\ val.done /\ val.err = NoErr)
    => val.in \in validAWSRegions

\* C29: every string ValidateSTSRegion accepts is a member of the valid-region
\* set once its surrounding whitespace is trimmed and its letters are lower-cased.
C29_AcceptedNormalised ==
    (val.fn = "ValidateSTSRegion" /\ val.done /\ val.err = NoErr)
    => ToLower(TrimSpace(val.in)) \in validAWSRegions

C29_Witness ==
    /\ val.fn = "ValidateSTSRegion" /\ val.done /\ val.err = NoErr
    /\ val.in \notin validAWSRegions

\* C23: each call of GetCredentials loads the configuration once and asks the
\* federation service once when the load succeeded and never when it failed; a
\* failed retrieval is returned after that one request, and the credential a call
\* returns is the one the service gave to that call's request.
C23_OneExchangePerCall ==
    /\ pc = "gc_wait" => (gc.configLoads = 1 /\ gc.stsReqs = 1)
    /\ pc = "gc_done"
         => /\ gc.configLoads = 1
            /\ gc.stsReqs = (IF gc.err = LoadConfigError(ConfigLoadErr) THEN 0 ELSE 1)
            /\ gc.err # NoErr => gc.ret = << >>
            /\ gc.err = NoErr => (gc.got \in StsCredentials
                                   /\ gc.ret = <<AWSTempCredentialsOf(gc.got)>>)

\* a second call of GetCredentials returning other credentials than the first
C23_Witness ==
    /\ val.fn = "GetCredentials" /\ val.in.ret # << >>
    /\ pc = "gc_done" /\ gc.stsReqs = 1
    /\ gc.ret # << >> /\ gc.ret # val.in.ret

\* two calls of TokenSource with the same environment and the same answers
SameCall(a, b) == [a EXCEPT !.written = {}] = [b EXCEPT !.written = {}]

\* C26: no operation reads process-wide mutable state: two calls of TokenSource
\* with the same environment and the same answers of the providers write the same
\* records, whatever SetConfig and InitLogger calls were made before or between.
C26_NoGlobalState ==
    (pc = "ts_done" /\ val.fn = "TokenSource" /\ SameCall(val.in, ts))
    => val.in.written = ts.written

\* C28: in whatever order a caller invokes the operations, none dereferences the
\* logger while it is nil.
C28_NoNilDereference == ~(pc = "panic" /\ Logger = "nil")

\* the raw token among the records a call of TokenSource wrote
TokenEmitted == \E e \in ts.written : e.msg = "Google identity token"

\* C30: for every level string given to both InitLogger and Config.LogLevel with
\* PrintIdToken true, the raw token is emitted if and only if InitLogger set the
\* logger to the debug level; an unknown level string selects the info level and
\* never emits the token.
C30_GateAgreesWithLogger ==
    (val.fn = "LogLevel" /\ pc = "ts_done" /\ ts.err = NoErr /\ Logger # "nil"
        /\ globalConfig.PrintIdToken /\ globalConfig.LogLevel = val.in)
    => /\ TokenEmitted <=> Logger = "DEBUG"
       /\ ToUpper(val.in) \notin {"DEBUG", "INFO", "WARN", "ERROR"}
            => (Logger = "INFO" /\ ~TokenEmitted)

====
